---------------------------- MODULE Spec2Model ----------------------------
(***************************************************************************)
(* A state-machine model of src/src/sqlite3/lib.rs: a Connection, its      *)
(* PreparedStatements, ResultIterators and transactions, driven by a       *)
(* client, over a model of the sqlite3 engine the ffi module declares.     *)
(***************************************************************************)
EXTENDS Integers, Sequences, FiniteSets, TLC

\* ------------------------------------------------------------- bounds
MaxStmts == 2
MaxRows == 2
MaxDepth == 2
MaxOps == 3

\* ---------------------------------------------------- program constants
SQLITE_OK == 0
SQLITE_ROW == 100
SQLITE_DONE == 101
NULL == 0

\* Result codes of the engine other than the three the ffi module names:
\* every one of them is "not SQLITE_OK / SQLITE_ROW / SQLITE_DONE" to the code.
SqliteErrorCode(why) ==
    CASE why = "error" -> 1
      [] why = "busy" -> 5
      [] why = "nomem" -> 7
      [] why = "full" -> 13
      [] why = "cantopen" -> 14
      [] why = "misuse" -> 21
      [] OTHER -> 25

\* ------------------------------------------------------------ SQL texts
SqlBegin == "BEGIN"
SqlCommit == "COMMIT"
SqlRollback == "ROLLBACK"
SqlInsert == "INSERT INTO t VALUES (?1)"
SqlUpdate == "UPDATE t SET x = ?1"
SqlSelect == "SELECT x FROM t"

ClientSql == {SqlInsert, SqlUpdate, SqlSelect}
DataModifying == {SqlInsert, SqlUpdate}

\* The number of ?N parameters of a statement.
ParamCount(sql) == IF sql \in DataModifying THEN 1 ELSE 0

\* ------------------------------------------------- SqlType marshaling
Digit(d) == CASE d = 0 -> "0" [] d = 1 -> "1" [] d = 2 -> "2" [] d = 3 -> "3"
              [] d = 4 -> "4" [] d = 5 -> "5" [] d = 6 -> "6" [] d = 7 -> "7"
              [] d = 8 -> "8" [] OTHER -> "9"

RECURSIVE NatToStr(_)
NatToStr(n) == IF n < 10 THEN <<Digit(n)>>
               ELSE Append(NatToStr(n \div 10), Digit(n % 10))

\* int::to_sql_str: the decimal text, as a sequence of characters.
ToSqlStr(i) == IF i < 0 THEN <<"-">> \o NatToStr(-i) ELSE NatToStr(i)

\* A column value of the engine: SQL NULL, or a text.
NullCell == [null |-> TRUE, text |-> <<>>]
TextCell(t) == [null |-> FALSE, text |-> t]

\* The parameter lists the client passes (@SqlType values, all of type int).
ParamLists == {<<>>, <<1>>, <<1, 2>>}

\* ------------------------------------------------------------- engine
\* The engine state: the connection handle, the statement handles, the
\* table t as the connection sees it and as it is durably committed, the
\* transaction flag, the change counter, the error text, and a flag raised
\* by any use of a released handle.
StmtIds == 1..MaxStmts

FreeStmt == [st |-> "free", sql |-> "", mode |-> "ready", pos |-> 0, bound |-> <<>>]

EngineInit ==
    [h |-> "none", stmts |-> [s \in StmtIds |-> FreeStmt], tbl |-> <<>>,
     committed |-> <<>>, inTxn |-> FALSE, changes |-> 0, err |-> "not an error",
     misuse |-> {}]

LiveStmts(e) == {s \in StmtIds : e.stmts[s].st = "live"}

Usable(e, s) == s \in StmtIds /\ e.stmts[s].st = "live"

\* A call on a released or never-returned handle: the engine's behaviour is
\* undefined; the model records which kind of call it was.
Misuse(e, kind) == [e EXCEPT !.misuse = @ \cup {kind}]

\* sqlite3_open: how == "ok" opens the database; "fail" reports an error and
\* still returns a handle (which must be closed); "nomem" reports an error
\* and returns no handle.
sqlite3_open(e, how) ==
    CASE how = "ok" ->
           [e |-> [e EXCEPT !.h = "open", !.err = "not an error"],
            rc |-> SQLITE_OK, db |-> 1]
      [] how = "fail" ->
           [e |-> [e EXCEPT !.h = "failed", !.err = "open error"],
            rc |-> SqliteErrorCode("cantopen"), db |-> 1]
      [] OTHER ->
           [e |-> e, rc |-> SqliteErrorCode("nomem"), db |-> NULL]

\* sqlite3_close: a null handle is a harmless no-op; a handle with live
\* statements is refused (busy) and stays open; a closed handle is misuse.
sqlite3_close(e, db) ==
    IF db = NULL THEN [e |-> e, rc |-> SQLITE_OK]
    ELSE IF e.h \notin {"open", "failed"} THEN [e |-> Misuse(e, "double close"), rc |-> SqliteErrorCode("misuse")]
    ELSE IF LiveStmts(e) # {} THEN [e |-> [e EXCEPT !.err = "close error"],
                                    rc |-> SqliteErrorCode("busy")]
    ELSE [e |-> [e EXCEPT !.h = "closed"], rc |-> SQLITE_OK]

\* sqlite3_errmsg: the text of the connection's most recent error (one text
\* for each kind of failing call).
sqlite3_errmsg(e, db) ==
    IF db = NULL THEN "out of memory"
    ELSE e.err

\* A call that takes the connection handle, made when it is not open.
ConnUse(e, db) == IF db # NULL /\ e.h = "open" THEN e ELSE Misuse(e, "use after close")

sqlite3_changes(e, db) == e.changes

\* sqlite3_prepare_v2: fails when told to (a syntax error, no memory) and when
\* no statement handle is left; otherwise returns a fresh statement handle.
sqlite3_prepare_v2(e, db, sql, fail) ==
    LET e0 == ConnUse(e, db)
        free == {s \in StmtIds : e0.stmts[s].st = "free"}
    IN  IF fail \/ free = {}
        THEN [e |-> [e0 EXCEPT !.err = "prepare error"],
              rc |-> SqliteErrorCode("error"), stmt |-> NULL]
        ELSE LET s == CHOOSE x \in free : \A y \in free : x <= y
             IN [e |-> [e0 EXCEPT !.err = "not an error",
                            !.stmts[s] = [st |-> "live", sql |-> sql, mode |-> "ready",
                                          pos |-> 0,
                                          bound |-> [i \in 1..ParamCount(sql) |-> NullCell]]],
                 rc |-> SQLITE_OK, stmt |-> s]

\* sqlite3_finalize: releases the statement; a null statement is a no-op.
sqlite3_finalize(e, s) ==
    IF s = NULL THEN e
    ELSE IF ~Usable(e, s) THEN Misuse(e, "double finalize")
    ELSE [e EXCEPT !.stmts[s] = FreeStmt]

\* sqlite3_reset: back to the start of execution; the bindings are kept.
sqlite3_reset(e, s) ==
    IF s = NULL THEN e
    ELSE IF ~Usable(e, s) THEN Misuse(e, "use after finalize")
    ELSE [e EXCEPT !.stmts[s].mode = "ready", !.stmts[s].pos = 0]

\* sqlite3_bind_text with SQLITE_TRANSIENT: the text is copied at once.
sqlite3_bind_text(e, s, idx, text, fail) ==
    IF ~Usable(e, s) THEN [e |-> Misuse(e, "use after finalize"), rc |-> SqliteErrorCode("misuse")]
    ELSE IF e.stmts[s].mode # "ready"
      THEN [e |-> [e EXCEPT !.err = "bind error"],
            rc |-> SqliteErrorCode("misuse")]
    ELSE IF idx \notin 1..Len(e.stmts[s].bound)
      THEN [e |-> [e EXCEPT !.err = "bind error"],
            rc |-> SqliteErrorCode("range")]
    ELSE IF fail
      THEN [e |-> [e EXCEPT !.err = "bind error"], rc |-> SqliteErrorCode("nomem")]
    ELSE [e |-> [e EXCEPT !.stmts[s].bound[idx] = TextCell(text), !.err = "not an error"],
          rc |-> SQLITE_OK]


\* What one step of a statement does to the database, the statement in
\* mode "ready" or "row": [e, rc, nmod], nmod the number of rows the step
\* itself modified.
StepRun(e, s) ==
    LET st == e.stmts[s]
        sql == st.sql
        halt(e1, rc, n) == [e |-> [e1 EXCEPT !.stmts[s].mode = "done", !.err = "not an error"],
                            rc |-> rc, nmod |-> n]
        refuse(msg) == [e |-> [e EXCEPT !.stmts[s].mode = "done", !.err = msg],
                        rc |-> SqliteErrorCode("error"), nmod |-> 0]
    IN  CASE sql = SqlBegin ->
               IF e.inTxn THEN refuse("step error")
               ELSE halt([e EXCEPT !.inTxn = TRUE], SQLITE_DONE, 0)
          [] sql = SqlCommit ->
               IF ~e.inTxn THEN refuse("step error")
               ELSE halt([e EXCEPT !.inTxn = FALSE, !.committed = e.tbl], SQLITE_DONE, 0)
          [] sql = SqlRollback ->
               IF ~e.inTxn THEN refuse("step error")
               ELSE halt([e EXCEPT !.inTxn = FALSE, !.tbl = e.committed], SQLITE_DONE, 0)
          [] sql = SqlInsert ->
               IF Len(e.tbl) >= MaxRows THEN refuse("step error")
               ELSE LET t2 == Append(e.tbl, st.bound[1])
                    IN  halt([e EXCEPT !.tbl = t2,
                                       !.committed = IF e.inTxn THEN @ ELSE t2,
                                       !.changes = 1], SQLITE_DONE, 1)
          [] sql = SqlUpdate ->
               LET t2 == [i \in 1..Len(e.tbl) |-> st.bound[1]]
               IN  halt([e EXCEPT !.tbl = t2,
                                  !.committed = IF e.inTxn THEN @ ELSE t2,
                                  !.changes = Len(e.tbl)], SQLITE_DONE, Len(e.tbl))
          [] OTHER ->
               IF st.pos < Len(e.tbl)
               THEN [e |-> [e EXCEPT !.stmts[s].mode = "row", !.stmts[s].pos = st.pos + 1,
                                     !.err = "not an error"],
                     rc |-> SQLITE_ROW, nmod |-> 0]
               ELSE halt(e, SQLITE_DONE, 0)

\* sqlite3_step.  fail: the engine reports an error of its own (busy, I/O,
\* no memory) and the statement halts.  A step on a halted statement (one
\* that reported done or an error and was not reset) depends on the build:
\* auto = TRUE resets the statement and runs it again from the start,
\* auto = FALSE reports misuse.
sqlite3_step(e, s, fail, auto) ==
    IF ~Usable(e, s) THEN [e |-> Misuse(e, "use after finalize"), rc |-> SqliteErrorCode("misuse"), nmod |-> 0]
    ELSE IF e.stmts[s].mode = "done" /\ ~auto
      THEN [e |-> [e EXCEPT !.err = "step error"],
            rc |-> SqliteErrorCode("misuse"), nmod |-> 0]
    ELSE IF fail
      THEN [e |-> [e EXCEPT !.stmts[s].mode = "done", !.err = "step error"],
            rc |-> SqliteErrorCode("busy"), nmod |-> 0]
    ELSE IF e.stmts[s].mode = "done" THEN StepRun(sqlite3_reset(e, s), s)
    ELSE StepRun(e, s)

\* sqlite3_column_count: the number of columns of the statement's result
\* set, whatever its position: one for the SELECT, none for the others.
sqlite3_column_count(e, s) ==
    IF Usable(e, s) /\ e.stmts[s].sql = SqlSelect THEN 1 ELSE 0

\* What sqlite3_column_text may return when the statement has no current
\* row or the index is out of range: the engine leaves that result undefined.
UndefinedColumn == {NullCell, TextCell(<<"x">>), TextCell(<<"0">>)}

\* sqlite3_column_text: the text of column iCol (0-based) of the statement's
\* current row, a null pointer for SQL NULL; undef is the result when there
\* is no such column or no current row.
sqlite3_column_text(e, s, iCol, undef) ==
    IF /\ Usable(e, s)
       /\ e.stmts[s].mode = "row"
       /\ e.stmts[s].pos \in 1..Len(e.tbl)
       /\ iCol \in 0..(sqlite3_column_count(e, s) - 1)
    THEN e.tbl[e.stmts[s].pos]
    ELSE undef

\* ------------------------------------------------------------ library
\* Result<T, ~str>: ok with a value, or an error text.
Ok(v) == [ok |-> TRUE, v |-> v, err |-> ""]
Err(msg) == [ok |-> FALSE, v |-> 0, err |-> msg]

\* The engine call a client call is made to fail at, if any ("bind": the
\* first bind; a later one fails by its index being out of range).
Faults == {"none", "prepare", "bind", "step"}

\* Connection::get_error
get_error(e, conn) == sqlite3_errmsg(e, conn)

\* Drop for PreparedStatement without the finalize call.
DropPreparedStatement_NoFinalize(e, stmt) == e

\* Drop for PreparedStatement
DropPreparedStatement(e, stmt) == sqlite3_finalize(e, stmt)

\* Connection::prepare: [e, res], res.v the statement handle.  On failure the
\* boxed statement (its handle is null) is dropped on the way out.
prepare(e, conn, sql, f) ==
    LET r == sqlite3_prepare_v2(e, conn, sql, f = "prepare")
    IN  IF r.rc = SQLITE_OK THEN [e |-> r.e, res |-> Ok(r.stmt)]
        ELSE [e |-> DropPreparedStatement(r.e, r.stmt), res |-> Err(get_error(r.e, conn))]

\* PreparedStatement::reset
reset(e, stmt) == sqlite3_reset(e, stmt)

\* PreparedStatement::bind_params, from list position i (1-based here, so
\* the engine index (idx+1) of the code is i): [e, res, n], n the number of
\* sqlite3_bind_text calls made.
RECURSIVE BindFrom(_, _, _, _, _, _)
BindFrom(e, conn, stmt, params, i, f) ==
    IF i > Len(params) THEN [e |-> e, res |-> Ok(0), n |-> i - 1]
    ELSE LET r == sqlite3_bind_text(e, stmt, i, ToSqlStr(params[i]), f = "bind" /\ i = 1)
         IN  IF r.rc # SQLITE_OK
             THEN [e |-> r.e, res |-> Err(get_error(r.e, conn)), n |-> i]
             ELSE BindFrom(r.e, conn, stmt, params, i + 1, f)

bind_params(e, conn, stmt, params, f) == BindFrom(e, conn, stmt, params, 1, f)

\* update_params returning the step's result code for the change count.
UpdateResult_StepCode(e, conn, rc) ==
    IF rc \in {SQLITE_DONE, SQLITE_ROW} THEN Ok(rc)
    ELSE Err(get_error(e, conn))

\* The value update_params returns for a step result.
UpdateResult(e, conn, rc) ==
    IF rc \in {SQLITE_DONE, SQLITE_ROW} THEN Ok(sqlite3_changes(e, conn))
    ELSE Err(get_error(e, conn))

\* update_params going on to the step after a bind error.
StmtUpdateParams_IgnoreBind(e, conn, stmt, params, f) ==
    LET b == bind_params(reset(e, stmt), conn, stmt, params, f)
        r == sqlite3_step(b.e, stmt, f = "step", TRUE)
    IN  [e |-> r.e, res |-> IF b.res.ok THEN UpdateResult(r.e, conn, r.rc) ELSE b.res,
         nmod |-> r.nmod, stepped |-> TRUE, binds |-> b.n]

\* PreparedStatement::update_params: [e, res, nmod, stepped, binds], stepped
\* for the step having been made, binds the bind calls made.
StmtUpdateParams(e, conn, stmt, params, f) ==
    LET e1 == reset(e, stmt)
        b == bind_params(e1, conn, stmt, params, f)
    IN  IF ~b.res.ok
        THEN [e |-> b.e, res |-> b.res, nmod |-> 0, stepped |-> FALSE, binds |-> b.n]
        ELSE LET r == sqlite3_step(b.e, stmt, f = "step", TRUE)
             IN  [e |-> r.e, res |-> UpdateResult(r.e, conn, r.rc), nmod |-> r.nmod,
                  stepped |-> TRUE, binds |-> b.n]

\* Connection::update_params dropping the statement before it is executed.
ConnUpdateParams_DropFirst(e, conn, sql, params, f) ==
    LET p == prepare(e, conn, sql, f)
    IN  IF ~p.res.ok
        THEN [e |-> p.e, res |-> p.res, nmod |-> 0, stepped |-> FALSE, binds |-> 0]
        ELSE StmtUpdateParams(DropPreparedStatement(p.e, p.res.v), conn, p.res.v, params, f)

\* Connection::update_params: prepare, then update_params on the statement,
\* which is dropped when the closure returns.
ConnUpdateParams(e, conn, sql, params, f) ==
    LET p == prepare(e, conn, sql, f)
    IN  IF ~p.res.ok
        THEN [e |-> p.e, res |-> p.res, nmod |-> 0, stepped |-> FALSE, binds |-> 0]
        ELSE LET u == StmtUpdateParams(p.e, conn, p.res.v, params, f)
             IN  [u EXCEPT !.e = DropPreparedStatement(u.e, p.res.v)]

\* PreparedStatement::query_params going on to the iterator after a bind error.
StmtQueryParams_IgnoreBind(e, conn, stmt, params, f) ==
    LET b == bind_params(reset(e, stmt), conn, stmt, params, f)
    IN  [e |-> b.e, res |-> Ok(stmt), binds |-> b.n]

\* PreparedStatement::query_params: [e, res, binds]; the iterator is the
\* statement.
StmtQueryParams(e, conn, stmt, params, f) ==
    LET e1 == reset(e, stmt)
        b == bind_params(e1, conn, stmt, params, f)
    IN  IF ~b.res.ok THEN [e |-> b.e, res |-> b.res, binds |-> b.n]
        ELSE [e |-> b.e, res |-> Ok(stmt), binds |-> b.n]

\* Connection::query_params returning a bind error with the statement kept.
ConnQueryParams_KeepOnError(e, conn, sql, params, f) ==
    LET p == prepare(e, conn, sql, f)
    IN  IF ~p.res.ok THEN [e |-> p.e, res |-> p.res, binds |-> 0]
        ELSE StmtQueryParams(p.e, conn, p.res.v, params, f)

\* Connection::query_params up to the call of blk: [e, res, binds].  On a bind
\* error the statement is dropped by the early return.
ConnQueryParams(e, conn, sql, params, f) ==
    LET p == prepare(e, conn, sql, f)
    IN  IF ~p.res.ok THEN [e |-> p.e, res |-> p.res, binds |-> 0]
        ELSE LET q == StmtQueryParams(p.e, conn, p.res.v, params, f)
             IN  IF ~q.res.ok
                 THEN [e |-> DropPreparedStatement(q.e, p.res.v), res |-> q.res,
                       binds |-> q.binds]
                 ELSE q

\* next() returning a Row for every result code but SQLITE_DONE.
IterNext_ErrorAsRow(e, stmt, fail, auto) ==
    LET r == sqlite3_step(e, stmt, fail, auto)
    IN  [e |-> r.e, row |-> (r.rc # SQLITE_DONE), rc |-> r.rc]

\* ResultIterator::next: [e, row, rc], row = TRUE for Some(Row), rc the
\* step's result code.
IterNext(e, stmt, fail, auto) ==
    LET r == sqlite3_step(e, stmt, fail, auto)
    IN  [e |-> r.e, row |-> (r.rc = SQLITE_ROW), rc |-> r.rc]

\* Option<T>: Some(v), or None.
Some(v) == [some |-> TRUE, v |-> v]
None == [some |-> FALSE, v |-> 0]

\* The value of a decimal digit character, -1 for any other character.
DigitVal(c) == IF \E d \in 0..9 : Digit(d) = c
               THEN CHOOSE d \in 0..9 : Digit(d) = c
               ELSE -1

\* The number the characters t[1..n] spell, -1 when one is not a digit.
RECURSIVE DigitsVal(_, _)
DigitsVal(t, n) ==
    IF n = 0 THEN 0
    ELSE LET hi == DigitsVal(t, n - 1)
             d == DigitVal(t[n])
         IN  IF hi < 0 \/ d < 0 THEN -1 ELSE hi * 10 + d

\* int::from_sql_str (FromStr::from_str): an optional minus sign, then one
\* or more decimal digits; anything else is None.
FromSqlStr(t) ==
    LET neg == Len(t) > 0 /\ t[1] = "-"
        body == IF neg THEN SubSeq(t, 2, Len(t)) ELSE t
        n == DigitsVal(body, Len(body))
    IN  IF Len(body) = 0 \/ n < 0 THEN None
        ELSE Some(IF neg THEN -n ELSE n)

\* Row::len
RowLen(e, stmt) == sqlite3_column_count(e, stmt)

\* Row::get giving the value 0 for a null column.
RowGet_NullAsDefault(e, stmt, idx, undef) ==
    LET raw == sqlite3_column_text(e, stmt, idx, undef)
    IN  IF raw.null THEN Some(0) ELSE FromSqlStr(raw.text)

\* Row::get::<int>: None for a null pointer, else the parsed text.
RowGet(e, stmt, idx, undef) ==
    LET raw == sqlite3_column_text(e, stmt, idx, undef)
    IN  IF raw.null THEN None ELSE FromSqlStr(raw.text)

\* in_transaction going on to the body whatever BEGIN returned.
InTransactionBegin_IgnoreError(e, conn, f) ==
    [ConnUpdateParams(e, conn, SqlBegin, <<>>, f) EXCEPT !.res = Ok(0)]

\* in_transaction, its first statement: self.update("BEGIN"), whose error
\* ret_err! returns.
InTransactionBegin(e, conn, f) == ConnUpdateParams(e, conn, SqlBegin, <<>>, f)

\* in_transaction committing whatever the body returned.
EndSql_AlwaysCommit(ret) == SqlCommit

\* The statement in_transaction ends with, for the body's result.
EndSql(ret) == IF ret.ok THEN SqlCommit ELSE SqlRollback

\* in_transaction returning the error of a failed COMMIT or ROLLBACK.
InTransactionResult_EndError(ret, endres) == IF endres.ok THEN ret ELSE endres

\* What in_transaction returns: the body's result, whatever the COMMIT or
\* ROLLBACK gave.
InTransactionResult(ret, endres) == ret

\* Drop for Connection: [e, ok], ok the assertion that close succeeded.
DropConnection(e, conn) ==
    LET r == sqlite3_close(e, conn)
    IN  [e |-> r.e, ok |-> (r.rc = SQLITE_OK)]

\* open: [e, res, asserted, conn], res.ok with the Connection kept alive; on
\* failure the error text is read and the Connection is dropped before open
\* returns.  conn: the handle field of the Connection after sqlite3_open,
\* the one get_error and Drop pass to the engine.
open(e, how) ==
    LET r == sqlite3_open(e, how)
    IN  IF r.rc = SQLITE_OK
        THEN [e |-> r.e, res |-> Ok(r.db), asserted |-> TRUE, conn |-> r.db]
        ELSE LET msg == get_error(r.e, r.db)
                 d == DropConnection(r.e, r.db)
             IN  [e |-> d.e, res |-> Err(msg), asserted |-> d.ok, conn |-> r.db]

\* ------------------------------------------------------------- client
\* eng: the engine.  pc: "start" before open, "run" while the Connection is
\* alive, "done" after every object is destroyed, "aborted" when the
\* assertion of Drop for Connection failed.  conn: the Connection's handle
\* field.  stack: the client's scopes, innermost last: a PreparedStatement it
\* holds ("stmt"), the body of a Connection::query_params call ("query"), the
\* body of an in_transaction call ("tx").  last: the call that returned last.
\* ops: the calls the client has made.
VARIABLES eng, pc, conn, stack, last, ops

vars == <<eng, pc, conn, stack, last, ops>>

\* The results a body passed to in_transaction returns, and the values a
\* body passed to query_params returns.
BodyResults == {Ok(7), Err("body failed")}
BodyValues == {7, 8}

\* A scope.  s: the statement handle.  it: a ResultIterator on it exists.
\* For the iterator made last on the statement: ended, a next() on it
\* returned None; clean: since it was made, the table was not modified and
\* the statement was not executed by another call.
\* pre: the table contents when in_transaction was called.
\* held: the client holds a Row of the statement, made by the next() that
\* reached row number held (0: it holds none); stale: a next() on the
\* statement was called after that Row was made.  started: next() was called
\* on the iterator made last.
Frame(k, s, it, pre) ==
    [k |-> k, s |-> s, it |-> it, ended |-> FALSE, clean |-> TRUE, pre |-> pre,
     held |-> 0, stale |-> FALSE, started |-> FALSE]

NoCall ==
    [op |-> "none", sql |-> "", res |-> Ok(0), body |-> Ok(0), calls |-> 0,
     beginOk |-> FALSE, endOk |-> FALSE, ev |-> <<>>, nmod |-> 0, changes0 |-> 0,
     pos0 |-> 0, row |-> FALSE, ended0 |-> FALSE, clean |-> TRUE, rows |-> 0,
     pre |-> <<>>, fresh |-> TRUE, rc |-> SQLITE_OK,
     got |-> None, cell |-> NullCell, held |-> 0, stale |-> FALSE, valid |-> FALSE,
     idx |-> 0, n |-> 0, nparams |-> 0, bound |-> <<>>, first |-> FALSE,
     params |-> <<>>, binds |-> 0, stepped |-> FALSE, failAt |-> 0,
     nested |-> FALSE, hnd |-> NULL]

Top == stack[Len(stack)]
Pop(stk) == SubSeq(stk, 1, Len(stk) - 1)

\* The scopes after a call that took the engine from e1 to e2: an iterator
\* is no longer clean once the table changed.
Touch(stk, e1, e2) ==
    [i \in DOMAIN stk |->
        IF e1.tbl # e2.tbl THEN [stk[i] EXCEPT !.clean = FALSE] ELSE stk[i]]

\* The position in its list (1-based) of the first parameter the engine
\* refuses to bind to a statement: the first when the call is made to fail
\* at the bind, else the first past the statement's parameters.
FirstBadBind(sql, f) == IF f = "bind" THEN 1 ELSE ParamCount(sql) + 1

\* The database file exists, with table t; it may already hold a row whose
\* text is not a number, or a row holding a number and a row holding NULL.
InitTables == {<<>>, <<TextCell(<<"x">>)>>, <<TextCell(<<"4", "2">>), NullCell>>}

\* The column indexes the client reads (0-based; the SELECT has column 0).
ColumnIndexes == {0, 1}

Init ==
    /\ \E t0 \in InitTables : eng = [EngineInit EXCEPT !.tbl = t0, !.committed = t0]
    /\ pc = "start"
    /\ conn = NULL
    /\ stack = <<>>
    /\ last = NoCall
    /\ ops = 0

\* open(filename)
Open(how) ==
    /\ pc = "start"
    /\ LET r == open(eng, how)
       IN  /\ eng' = r.e
           /\ pc' = IF r.res.ok THEN "run" ELSE IF r.asserted THEN "done" ELSE "aborted"
           /\ conn' = IF r.res.ok THEN r.res.v ELSE NULL
           /\ last' = [NoCall EXCEPT !.op = "open", !.res = r.res, !.hnd = r.conn]
    /\ UNCHANGED <<stack, ops>>

\* let stmt = conn.prepare(sql)
Prepare(sql, f) ==
    /\ pc = "run"
    /\ ops < MaxOps
    /\ ops' = ops + 1
    /\ Len(stack) < MaxDepth
    /\ LET r == prepare(eng, conn, sql, f)
       IN  /\ eng' = r.e
           /\ stack' = IF r.res.ok THEN Append(stack, Frame("stmt", r.res.v, FALSE, <<>>))
                       ELSE stack
           /\ last' = [NoCall EXCEPT !.op = "prepare", !.res = r.res]
    /\ UNCHANGED <<pc, conn>>

\* conn.update(sql) / conn.update_params(sql, params)
ConnUpdate(sql, params, f) ==
    /\ pc = "run"
    /\ ops < MaxOps
    /\ ops' = ops + 1
    /\ LET r == ConnUpdateParams(eng, conn, sql, params, f)
       IN  /\ eng' = r.e
           /\ stack' = Touch(stack, eng, r.e)
           /\ last' = [NoCall EXCEPT !.op = "update", !.res = r.res,
                                     !.sql = IF r.res.ok THEN sql ELSE "",
                                     !.nmod = r.nmod, !.changes0 = eng.changes,
                                     !.params = params, !.binds = r.binds,
                                     !.stepped = r.stepped,
                                     !.pre = IF r.res.ok THEN <<>> ELSE eng.tbl,
                                     !.failAt = IF r.res.ok THEN 0 ELSE FirstBadBind(sql, f)]
    /\ UNCHANGED <<pc, conn>>

\* stmt.update() / stmt.update_params(params) on a statement the client holds
StmtUpdate(i, params, f) ==
    /\ pc = "run"
    /\ ops < MaxOps
    /\ ops' = ops + 1
    /\ i \in DOMAIN stack
    /\ stack[i].k = "stmt"
    /\ LET r == StmtUpdateParams(eng, conn, stack[i].s, params, f)
           stk == Touch(stack, eng, r.e)
       IN  /\ eng' = r.e
           /\ stack' = [stk EXCEPT ![i].clean = FALSE]
           /\ last' = [NoCall EXCEPT !.op = "update", !.res = r.res,
                                     !.sql = IF r.res.ok THEN eng.stmts[stack[i].s].sql ELSE "", !.nmod = r.nmod,
                                     !.changes0 = eng.changes,
                                     !.nparams = IF r.res.ok THEN Len(params) ELSE 0,
                                     !.bound = r.e.stmts[stack[i].s].bound,
                                     !.params = params, !.binds = r.binds,
                                     !.stepped = r.stepped,
                                     !.pre = IF r.res.ok THEN <<>> ELSE eng.tbl,
                                     !.failAt = IF r.res.ok THEN 0
                                                ELSE FirstBadBind(eng.stmts[stack[i].s].sql, f)]
    /\ UNCHANGED <<pc, conn>>

\* let it = stmt.query() / stmt.query_params(params) on a statement the client holds
StmtQuery(i, params, f) ==
    /\ pc = "run"
    /\ ops < MaxOps
    /\ ops' = ops + 1
    /\ i \in DOMAIN stack
    /\ stack[i].k = "stmt"
    /\ LET r == StmtQueryParams(eng, conn, stack[i].s, params, f)
       IN  /\ eng' = r.e
           /\ stack' = IF r.res.ok
                       THEN [stack EXCEPT ![i] = [Frame("stmt", stack[i].s, TRUE, <<>>)
                                                    EXCEPT !.clean = TRUE]]
                       ELSE [stack EXCEPT ![i].clean = FALSE, ![i].ended = FALSE]
           /\ last' = [NoCall EXCEPT !.op = "stmt_query", !.res = r.res,
                                     !.fresh = /\ r.e.stmts[stack[i].s].mode = "ready"
                                               /\ r.e.stmts[stack[i].s].pos = 0
                                               /\ r.e.tbl = eng.tbl
                                               /\ r.e.committed = eng.committed
                                               /\ r.e.changes = eng.changes,
                                     !.nparams = IF r.res.ok THEN Len(params) ELSE 0,
                                     !.bound = r.e.stmts[stack[i].s].bound,
                                     !.params = params, !.binds = r.binds,
                                     !.changes0 = eng.changes,
                                     !.pre = IF r.res.ok THEN <<>> ELSE eng.tbl,
                                     !.failAt = IF r.res.ok THEN 0
                                                ELSE FirstBadBind(eng.stmts[stack[i].s].sql, f)]
    /\ UNCHANGED <<pc, conn>>

\* conn.query(sql, blk) / conn.query_params(sql, params, blk), up to the call
\* of blk; an error returns at once.
ConnQueryCall(sql, params, f) ==
    /\ pc = "run"
    /\ ops < MaxOps
    /\ ops' = ops + 1
    /\ Len(stack) < MaxDepth
    /\ LET r == ConnQueryParams(eng, conn, sql, params, f)
       IN  /\ eng' = r.e
           /\ stack' = IF r.res.ok THEN Append(stack, Frame("query", r.res.v, TRUE, <<>>))
                       ELSE stack
           /\ last' = IF r.res.ok
                      THEN [NoCall EXCEPT !.op = "query_body",
                                          !.fresh = (r.e.stmts[r.res.v].mode = "ready")]
                      ELSE [NoCall EXCEPT !.op = "query", !.res = r.res,
                                          !.params = params, !.binds = r.binds,
                                          !.changes0 = eng.changes, !.pre = eng.tbl,
                                          !.failAt = FirstBadBind(sql, f)]
    /\ UNCHANGED <<pc, conn>>

\* What query_params returns once blk returned v.
QueryResult(v) == Ok(v)

\* blk returns v: query_params returns, its iterator and statement dropped.
ConnQueryReturn(v) ==
    /\ pc = "run"
    /\ UNCHANGED ops
    /\ stack # <<>>
    /\ Top.k = "query"
    /\ eng' = DropPreparedStatement(eng, Top.s)
    /\ stack' = Pop(stack)
    /\ last' = [NoCall EXCEPT !.op = "query",
                              !.res = QueryResult(v), !.body = Ok(v), !.calls = 1]
    /\ UNCHANGED <<pc, conn>>

\* it.next() on an iterator in scope.  keep: the client goes on holding the
\* Row an earlier next() gave it (Row<'self> borrows the statement, not the
\* iterator, so the borrow checker lets it); otherwise it holds the Row this
\* call returns, if any.
Next_(i, fail, auto, keep) ==
    /\ pc = "run"
    /\ ops < MaxOps
    /\ ops' = ops + 1
    /\ i \in DOMAIN stack
    /\ stack[i].it
    /\ keep => stack[i].held # 0
    /\ LET r == IterNext(eng, stack[i].s, fail, auto)
           stk == Touch(stack, eng, r.e)
       IN  /\ eng' = r.e
           /\ stack' = [stk EXCEPT ![i].ended = @ \/ ~r.row,
                                   ![i].held = IF keep THEN @
                                               ELSE IF r.row THEN r.e.stmts[stack[i].s].pos
                                               ELSE 0,
                                   ![i].stale = keep,
                                   ![i].started = TRUE]
           /\ last' = [NoCall EXCEPT !.op = "next", !.sql = eng.stmts[stack[i].s].sql,
                                     !.row = r.row, !.pos0 = eng.stmts[stack[i].s].pos, !.ended0 = stack[i].ended,
                                     !.clean = stack[i].clean, !.rows = Len(eng.tbl),
                                     !.rc = r.rc, !.first = ~stack[i].started,
                                     !.held = IF r.row THEN r.e.stmts[stack[i].s].pos ELSE 0]
    /\ UNCHANGED <<pc, conn>>

\* row.len() on a Row the client holds
RowLenCall(i) ==
    /\ pc = "run"
    /\ i \in DOMAIN stack
    /\ stack[i].held # 0
    /\ last' = [NoCall EXCEPT !.op = "len", !.n = RowLen(eng, stack[i].s),
                              !.sql = eng.stmts[stack[i].s].sql,
                              !.held = stack[i].held, !.stale = stack[i].stale]
    /\ UNCHANGED <<eng, pc, conn, stack, ops>>

\* row.get::<int>(idx) on a Row the client holds.  valid: the statement is
\* on a row and idx is one of its columns; cell: the stored value of the
\* row the Row was made for.
RowGetCall(i, idx, undef) ==
    /\ pc = "run"
    /\ i \in DOMAIN stack
    /\ stack[i].held # 0
    /\ LET s == stack[i].s
           valid == /\ eng.stmts[s].mode = "row"
                    /\ eng.stmts[s].pos \in 1..Len(eng.tbl)
                    /\ idx < RowLen(eng, s)
       IN  last' = [NoCall EXCEPT !.op = "get", !.got = RowGet(eng, s, idx, undef),
                                  !.idx = idx, !.valid = valid, !.clean = stack[i].clean,
                                  !.pos0 = eng.stmts[s].pos,
                                  !.cell = IF stack[i].held \in 1..Len(eng.tbl)
                                           THEN eng.tbl[stack[i].held] ELSE NullCell,
                                  !.held = stack[i].held, !.stale = stack[i].stale]
    /\ UNCHANGED <<eng, pc, conn, stack, ops>>

\* conn.in_transaction(blk), up to the call of blk; a BEGIN error returns at once.
InTransactionCall(f) ==
    /\ pc = "run"
    /\ ops < MaxOps
    /\ ops' = ops + 1
    /\ Len(stack) < MaxDepth
    /\ LET r == InTransactionBegin(eng, conn, f)
           nested == \E i \in DOMAIN stack : stack[i].k = "tx"
       IN  /\ eng' = r.e
           /\ stack' = IF r.res.ok THEN Append(stack, Frame("tx", NULL, FALSE, eng.tbl))
                       ELSE stack
           /\ last' = IF r.res.ok
                      THEN [NoCall EXCEPT !.op = "tx_body", !.ev = <<SqlBegin, "body">>,
                                          !.nested = nested]
                      ELSE [NoCall EXCEPT !.op = "in_transaction", !.res = r.res,
                                          !.ev = <<SqlBegin>>, !.nested = nested,
                                          !.pre = eng.tbl]
    /\ UNCHANGED <<pc, conn>>

\* blk returns ret: in_transaction issues COMMIT or ROLLBACK and returns.
InTransactionReturn(ret, f) ==
    /\ pc = "run"
    /\ UNCHANGED ops
    /\ stack # <<>>
    /\ Top.k = "tx"
    /\ LET r == ConnUpdateParams(eng, conn, EndSql(ret), <<>>, f)
       IN  /\ eng' = r.e
           /\ stack' = Touch(Pop(stack), eng, r.e)
           /\ last' = [NoCall EXCEPT !.op = "in_transaction",
                                     !.res = InTransactionResult(ret, r.res),
                                     !.body = ret, !.calls = 1, !.beginOk = TRUE,
                                     !.endOk = r.res.ok,
                                     !.ev = <<SqlBegin, "body", EndSql(ret)>>,
                                     !.pre = Top.pre]
    /\ UNCHANGED <<pc, conn>>

\* A PreparedStatement the client holds goes out of scope.
DropStmt ==
    /\ pc = "run"
    /\ UNCHANGED ops
    /\ stack # <<>>
    /\ Top.k = "stmt"
    /\ eng' = DropPreparedStatement(eng, Top.s)
    /\ stack' = Pop(stack)
    /\ last' = [NoCall EXCEPT !.op = "drop_stmt"]
    /\ UNCHANGED <<pc, conn>>

\* The Connection goes out of scope: the lifetime 'a of prepare's result
\* makes every statement go first.
DropConn ==
    /\ pc = "run"
    /\ UNCHANGED ops
    /\ stack = <<>>
    /\ LET r == DropConnection(eng, conn)
       IN  /\ eng' = r.e
           /\ pc' = IF r.ok THEN "done" ELSE "aborted"
    /\ last' = [NoCall EXCEPT !.op = "drop_conn"]
    /\ UNCHANGED <<conn, stack>>

Next ==
    \/ \E how \in {"ok", "fail", "nomem"} : Open(how)
    \/ \E sql \in ClientSql, f \in Faults \ {"bind", "step"} : Prepare(sql, f)
    \/ \E sql \in ClientSql, params \in ParamLists, f \in Faults \ {"bind"} : ConnUpdate(sql, params, f)
    \/ \E i \in 1..MaxDepth, params \in ParamLists, f \in Faults \ {"prepare"} : StmtUpdate(i, params, f)
    \/ \E i \in 1..MaxDepth, params \in ParamLists, f \in Faults \ {"prepare", "step"} : StmtQuery(i, params, f)
    \/ \E sql \in ClientSql, params \in ParamLists, f \in Faults \ {"bind", "step"} : ConnQueryCall(sql, params, f)
    \/ \E v \in BodyValues : ConnQueryReturn(v)
    \/ \E i \in 1..MaxDepth, fail \in BOOLEAN, auto \in BOOLEAN, keep \in BOOLEAN :
          Next_(i, fail, auto, keep)
    \/ \E i \in 1..MaxDepth : RowLenCall(i)
    \/ \E i \in 1..MaxDepth, idx \in ColumnIndexes, undef \in UndefinedColumn :
          RowGetCall(i, idx, undef)
    \/ \E f \in Faults \ {"bind"} : InTransactionCall(f)
    \/ \E ret \in BodyResults, f \in Faults \ {"bind"} : InTransactionReturn(ret, f)
    \/ DropStmt
    \/ DropConn

Spec == Init /\ [][Next]_vars

\* ------------------------------------------------------------- claims

\* C1: once every object is destroyed, every statement handle a prepare
\* returned has been finalized exactly once (none is live, none was finalized
\* twice) and the connection handle the engine returned has been closed
\* exactly once, on the error paths too.
C1_ReleasedExactlyOnce ==
    pc \in {"done", "aborted"} =>
        /\ LiveStmts(eng) = {}
        /\ eng.misuse \cap {"double finalize", "double close"} = {}
        /\ eng.h \in {"closed", "none"}
        /\ (eng.h = "none" => ~last.res.ok /\ last.op = "open")

\* C1 witness: the connection was opened, a data-modifying statement was
\* prepared and executed on it, and everything has been destroyed.
C1_Witness ==
    /\ pc = "done"
    /\ eng.h = "closed"
    /\ eng.changes > 0
    /\ LiveStmts(eng) = {}

\* C2: destruction is nested: no engine call is made on a finalized statement
\* or on a closed connection, the assertion of Drop for Connection never
\* fails, and when the connection is closed no statement is live or in scope.
C2_NestedDestruction ==
    /\ eng.misuse \cap {"use after finalize", "use after close"} = {}
    /\ pc # "aborted"
    /\ (eng.h = "closed" => LiveStmts(eng) = {} /\ stack = <<>>)
    /\ (pc = "run" => eng.h = "open")

\* C2 witness: a PreparedStatement the client held was finalized while the
\* connection was still open.
C2_Witness ==
    /\ last.op = "drop_stmt"
    /\ eng.h = "open"
    /\ LiveStmts(eng) = {}
    /\ stack = <<>>

\* C3 (as claimed): when the body returned an error, the table after
\* in_transaction returns equals the table before it was called.
C3_RollbackRestoresTable ==
    (last.op = "in_transaction" /\ last.beginOk /\ ~last.body.ok) => eng.tbl = last.pre

\* C4 (as claimed): whenever in_transaction returns Ok, what the body wrote
\* is committed: the table the connection sees is the durable one.
C4_OkMeansCommitted ==
    (last.op = "in_transaction" /\ last.res.ok) => eng.committed = eng.tbl

\* C5: whenever BEGIN succeeded, in_transaction returns exactly the body's
\* result, whether COMMIT or ROLLBACK succeeded or failed.
C5_ReturnsBodyResult ==
    (last.op = "in_transaction" /\ last.beginOk) => last.res = last.body

\* C5 witness: in_transaction returned the body's result although its COMMIT
\* or ROLLBACK failed.
C5_Witness ==
    /\ last.op = "in_transaction"
    /\ last.beginOk
    /\ ~last.endOk
    /\ last.res = last.body

\* C6: an in_transaction call issues BEGIN; if BEGIN failed its error is
\* returned, the body is not invoked and nothing else is issued; otherwise
\* the body is invoked once, inside the transaction, and after it returned
\* exactly one of COMMIT (body Ok) or ROLLBACK (body Err) is issued.
C6_TransactionEvents ==
    /\ last.op = "tx_body" =>
          /\ last.ev = <<SqlBegin, "body">>
          /\ eng.inTxn
          /\ stack # <<>> /\ Top.k = "tx"
    /\ last.op = "in_transaction" =>
          IF last.beginOk
          THEN /\ last.calls = 1
               /\ last.ev = <<SqlBegin, "body", IF last.body.ok THEN SqlCommit ELSE SqlRollback>>
          ELSE /\ last.calls = 0
               /\ last.ev = <<SqlBegin>>
               /\ ~last.res.ok
               /\ last.res.err \in {"prepare error", "step error"}

\* C6 witness: a body returned an error and ROLLBACK was issued after it.
C6_Witness ==
    /\ last.op = "in_transaction"
    /\ last.ev = <<SqlBegin, "body", SqlRollback>>
    /\ ~last.body.ok
    /\ last.endOk

\* C7 (as claimed): over a table of N rows, an iterator of a SELECT whose
\* earlier next() calls all returned a Row (so this is call pos0 + 1) returns
\* a Row if and only if the call is one of the first N.
C7_QueryYieldsAllRows ==
    (last.op = "next" /\ last.sql = SqlSelect /\ last.clean /\ ~last.ended0) =>
        (last.row <=> last.pos0 < last.rows)

C9_QueryBodyOnce ==
    /\ last.op = "query_body" =>
          /\ last.fresh
          /\ eng.err = "not an error"
          /\ stack # <<>> /\ Top.k = "query" /\ Top.it
          /\ eng.stmts[Top.s].mode = "ready" /\ eng.stmts[Top.s].pos = 0
    /\ last.op = "query" =>
          IF last.res.ok
          THEN last.calls = 1 /\ last.res = last.body
          ELSE last.calls = 0 /\ last.res.err \in {"prepare error", "bind error"}

\* C9 witness: query_params returned Ok of the value its body returned.
C9_Witness ==
    /\ last.op = "query"
    /\ last.res.ok
    /\ last.calls = 1
    /\ last.res.v = 8

\* C10 (as claimed): once next() on an iterator has returned None, every
\* later next() on it, with no query call on the statement in between,
\* returns None.
C10_ExhaustedIsTerminal ==
    (last.op = "next" /\ last.ended0) => ~last.row

\* C11 (as claimed): a Row is never read (len / get) after a later next() on
\* its statement, and get reads the row the Row was made for: the statement's
\* current row is the one that next() reached.
C11_RowNotReadAfterNext ==
    last.op \in {"len", "get"} =>
        /\ ~last.stale
        /\ (last.op = "get" /\ last.valid) => last.pos0 = last.held

\* The characters of a decimal number.
DigitChars == {Digit(d) : d \in 0..9}

\* A text that is not a decimal integer: empty, a lone sign, or with a
\* character that is neither a digit nor a leading minus sign.
NotANumber(t) ==
    \/ t = <<>>
    \/ t = <<"-">>
    \/ \E k \in 1..Len(t) : t[k] \notin DigitChars /\ ~(k = 1 /\ t[k] = "-")

\* C12: get on a column of the statement's current row, read through the Row
\* made for that row, returns None when the stored value is SQL NULL (not
\* Some of a default value) and None when the stored text is not a number.
C12_GetAbsentValue ==
    (last.op = "get" /\ last.valid /\ last.pos0 = last.held) =>
        /\ last.cell.null => last.got = None
        /\ (~last.cell.null /\ NotANumber(last.cell.text)) => last.got = None

\* C12 witness: get read a column storing SQL NULL and returned None.
C12_Witness ==
    /\ last.op = "get"
    /\ last.valid
    /\ last.pos0 = last.held
    /\ last.cell.null
    /\ last.got = None

\* C13 (as claimed): when update_params / query_params on a statement bound
\* its parameter list and went on, every parameter of the statement beyond
\* the list is unbound (NULL), whatever an earlier execution bound; and
\* reset applied twice gives the state reset applied once gives.
C13_ResetClearsBindings ==
    /\ (last.op \in {"update", "stmt_query"} /\ last.res.ok) =>
            \A k \in DOMAIN last.bound : k > last.nparams => last.bound[k] = NullCell
    /\ \A s \in LiveStmts(eng) : reset(reset(eng, s), s) = reset(eng, s)

\* C14 (as claimed): a query / query_params call on a statement that returns
\* an iterator leaves the statement at its start and makes no step (the
\* database and the change counter are as before the call); and the first
\* next() on that iterator, over a table that was not modified since,
\* returns the first row of the table when the table has one.
C14_QueryStartsFreshCycle ==
    /\ (last.op = "stmt_query" /\ last.res.ok) => last.fresh
    /\ (last.op = "next" /\ last.sql = SqlSelect /\ last.clean /\ last.first) =>
           /\ last.row <=> last.rows > 0
           /\ last.row => last.held = 1

\* C15: update_params / query_params make their bind calls in list order,
\* parameter k of the list (1-based here) at engine index k; a call that
\* went on bound every parameter; a call whose bind failed stopped at the
\* first parameter the engine refused (no bind call for a later one),
\* returned the connection's error text, made no step, and left the table
\* and the change counter as they were.
C15_BindStopsAtFirstFailure ==
    last.op \in {"update", "stmt_query", "query"} =>
        /\ last.binds <= Len(last.params)
        /\ (last.res.ok \/ last.stepped) => last.binds = Len(last.params)
        /\ \A k \in DOMAIN last.bound :
              (k < last.binds \/ (k = last.binds /\ (last.res.ok \/ last.stepped))) =>
                  last.bound[k] = TextCell(ToSqlStr(last.params[k]))
        /\ (~last.res.ok /\ last.res.err = "bind error") =>
              /\ last.binds = last.failAt
              /\ ~last.stepped
              /\ eng.err = last.res.err
              /\ eng.tbl = last.pre
              /\ eng.changes = last.changes0

\* C15 witness: update_params on a statement, given two parameters, failed
\* at the first bind: one bind call was made and no step.
C15_Witness ==
    /\ last.op = "update"
    /\ last.res.err = "bind error"
    /\ Len(last.params) = 2
    /\ last.binds = 1
    /\ ~last.stepped
    /\ Len(last.bound) = 1

\* C16: a next() call makes one step of the statement: it returns a Row
\* exactly when the step's result code is SQLITE_ROW, and then the statement
\* of a SELECT is one row further (or on row 1, when the step restarted a
\* halted statement); SQLITE_DONE and every error code give None.
C16_OneStepPerNext ==
    last.op = "next" =>
        /\ last.row <=> last.rc = SQLITE_ROW
        /\ last.rc \notin {SQLITE_ROW, SQLITE_DONE} => ~last.row
        /\ (last.row /\ last.sql = SqlSelect) => last.held \in {last.pos0 + 1, 1}

\* C16 witness: after a first row, the step of the second next() reported an
\* engine error and next() returned None.
C16_Witness ==
    /\ last.op = "next"
    /\ last.pos0 = 1
    /\ last.rows = 2
    /\ last.rc = SqliteErrorCode("busy")
    /\ ~last.row

\* The scopes of stk that are bodies of in_transaction calls.
TxFrames(stk) == {i \in DOMAIN stk : stk[i].k = "tx"}

\* C17: an in_transaction call made inside the body of another returns an
\* error after its BEGIN, without invoking its body (no second body is ever
\* entered) and without a COMMIT or ROLLBACK; the table is as before the
\* call and the outer transaction is open during the whole outer body.
C17_TransactionsDoNotNest ==
    /\ Cardinality(TxFrames(stack)) <= 1
    /\ TxFrames(stack) # {} => eng.inTxn
    /\ last.op = "tx_body" => ~last.nested
    /\ (last.op = "in_transaction" /\ last.nested) =>
           /\ ~last.res.ok
           /\ last.calls = 0
           /\ last.ev = <<SqlBegin>>
           /\ eng.tbl = last.pre
           /\ TxFrames(stack) # {}

\* C17 witness: inside the body of an in_transaction call a second call was
\* made; its BEGIN was rejected by the engine and it returned that error,
\* the outer transaction still open.
C17_Witness ==
    /\ last.op = "in_transaction"
    /\ last.nested
    /\ last.res.err = "step error"
    /\ eng.inTxn
    /\ TxFrames(stack) # {}

\* C18 (as claimed): the handle of a live Connection is not null: not the
\* handle of the Connection the client holds, and not the handle of the
\* Connection open made, on which get_error and close are called when
\* sqlite3_open failed.
C18_HandleNonNull ==
    /\ pc = "run" => conn # NULL
    /\ last.op = "open" => last.hnd # NULL

\* C19 (as claimed): when an in_transaction call that is not nested in
\* another, and whose BEGIN succeeded, returns, no transaction is open on the
\* connection: what the connection sees is what is committed.
C19_NoTransactionLeftOpen ==
    (last.op = "in_transaction" /\ last.beginOk /\ TxFrames(stack) = {}) =>
        /\ ~eng.inTxn
        /\ eng.committed = eng.tbl

\* The statements the client's scopes hold: the PreparedStatements it
\* prepared and the statement of each query_params call whose body runs.
HeldStmts(stk) == {stk[i].s : i \in {j \in DOMAIN stk : stk[j].k \in {"stmt", "query"}}}

\* C20: while the Connection is alive the live statements are exactly the
\* ones in scope, each in one scope: the statement of a query_params call is
\* live during its body and finalized when the call has returned, and after
\* update_params, in_transaction or a failed query_params returned, and
\* inside the body of in_transaction, no statement of theirs is live; no
\* next() steps a finalized statement.
C20_TemporaryStatementsReleased ==
    /\ pc = "run" =>
           /\ LiveStmts(eng) = HeldStmts(stack)
           /\ Cardinality(HeldStmts(stack)) = Len(stack) - Cardinality(TxFrames(stack))
    /\ "use after finalize" \notin eng.misuse
    /\ last.op = "query_body" => Top.s \in LiveStmts(eng)

\* C20 witness: a query_params call whose body ran returned while the client
\* holds a PreparedStatement: that one alone is live.
C20_Witness ==
    /\ last.op = "query"
    /\ last.res.ok
    /\ last.calls = 1
    /\ Len(stack) = 1
    /\ stack[1].k = "stmt"
    /\ LiveStmts(eng) = {stack[1].s}

=============================================================================
